---- MODULE Spec2Model ----
(***************************************************************************)
(* The SmartMeet session store (src/db.js): six SQLite tables behind a     *)
(* module of synchronous data-access functions.  Every exported function   *)
(* is one action; the tables are the state.  A statement of the engine     *)
(* either runs, raises on a constraint of the schema, or raises because    *)
(* the engine itself fails (I/O, busy); the functions' try/catch blocks    *)
(* decide what the caller sees.                                            *)
(***************************************************************************)
EXTENDS Integers, Sequences, FiniteSets, TLC

VARIABLES meetings, participants, email_logs, chat_logs, oauth_tokens,
          system_settings, now, txn, last

vars == <<meetings, participants, email_logs, chat_logs, oauth_tokens,
          system_settings, now, txn, last>>

-----------------------------------------------------------------------------
(* Bounds of the model *)

MaxTime == 3
MaxParticipants == 2
MaxTokens == 2
MaxDaysToKeep == 1
MaxOwned == 2
MaxLogs == 1
MaxEmails == 2
MaxChats == 2
MaxStatsSessions == 3

(* Clock ticks per calendar day: a stored timestamp is a day and a time of day *)
TicksPerDay == 2

-----------------------------------------------------------------------------
(* SQL NULL / JS undefined for a scalar column or property *)
NULL == "NULL"

(* A structured (object) value or an encoded text that may be absent *)
None == <<>>
Some(x) == <<x>>

(* JS truthiness of a string property: undefined, null and "" are falsy *)
Truthy(s) == s # NULL /\ s # ""

(* `x || null` *)
OrNull(s) == IF Truthy(s) THEN s ELSE NULL

(* `x || dflt` *)
OrDefault(s, dflt) == IF Truthy(s) THEN s ELSE dflt

-----------------------------------------------------------------------------
(* The schema's enumerations *)

Platforms == {"zoom", "teams", "gmeet", "cliq"}
Statuses == {"provisioning", "recording", "processing", "completed", "failed"}
Roles == {"organizer", "participant", "observer"}
EmailStatuses == {"pending", "sent", "failed", "bounced"}

-----------------------------------------------------------------------------
(* JSON.  A structured value is an object whose properties are arrays of   *)
(* strings (a summary: highlights and actions; a metadata object: tags),   *)
(* kept as the sequence of its properties in insertion order.  Its text is *)
(* the sequence of the tokens JSON.stringify writes.                       *)

Punct(c) == [q |-> FALSE, s |-> c]
Str(s) == [q |-> TRUE, s |-> s]

RECURSIVE JoinComma(_)
JoinComma(parts) ==
  IF Len(parts) = 0 THEN <<>>
  ELSE IF Len(parts) = 1 THEN parts[1]
  ELSE parts[1] \o <<Punct(",")>> \o JoinComma(Tail(parts))

StringifyArray(arr) ==
  <<Punct("[")>> \o JoinComma([i \in 1..Len(arr) |-> <<Str(arr[i])>>]) \o <<Punct("]")>>

StringifyProperty(p) == <<Str(p.k), Punct(":")>> \o StringifyArray(p.v)

JSONStringify(obj) ==
  <<Punct("{")>> \o JoinComma([i \in 1..Len(obj) |-> StringifyProperty(obj[i])])
                 \o <<Punct("}")>>

(* The parser: each step takes the remaining tokens and gives what it read *)
(* and what is left, or fails.                                             *)
ParseFail == [ok |-> FALSE, val |-> <<>>, rest |-> <<>>]

IsPunct(toks, c) == Len(toks) > 0 /\ toks[1] = Punct(c)
IsStr(toks) == Len(toks) > 0 /\ toks[1].q

RECURSIVE ParseElements(_, _)
ParseElements(toks, acc) ==
  IF ~IsStr(toks) THEN ParseFail
  ELSE LET acc2 == Append(acc, toks[1].s)
           rest == Tail(toks)
       IN IF IsPunct(rest, ",") THEN ParseElements(Tail(rest), acc2)
          ELSE IF IsPunct(rest, "]") THEN [ok |-> TRUE, val |-> acc2, rest |-> Tail(rest)]
          ELSE ParseFail

ParseArray(toks) ==
  IF ~IsPunct(toks, "[") THEN ParseFail
  ELSE IF IsPunct(Tail(toks), "]")
       THEN [ok |-> TRUE, val |-> <<>>, rest |-> Tail(Tail(toks))]
       ELSE ParseElements(Tail(toks), <<>>)

RECURSIVE ParseProperties(_, _)
ParseProperties(toks, acc) ==
  IF ~(IsStr(toks) /\ IsPunct(Tail(toks), ":")) THEN ParseFail
  ELSE LET a == ParseArray(Tail(Tail(toks)))
       IN IF ~a.ok THEN ParseFail
          ELSE LET acc2 == Append(acc, [k |-> toks[1].s, v |-> a.val])
               IN IF IsPunct(a.rest, ",") THEN ParseProperties(Tail(a.rest), acc2)
                  ELSE IF IsPunct(a.rest, "}")
                       THEN [ok |-> TRUE, val |-> acc2, rest |-> Tail(a.rest)]
                       ELSE ParseFail

(* JSON.parse: ok is FALSE where it throws a SyntaxError *)
JSONParse(toks) ==
  IF ~IsPunct(toks, "{") THEN ParseFail
  ELSE LET r == IF IsPunct(Tail(toks), "}")
                THEN [ok |-> TRUE, val |-> <<>>, rest |-> Tail(Tail(toks))]
                ELSE ParseProperties(Tail(toks), <<>>)
       IN IF r.ok /\ r.rest = <<>> THEN r ELSE ParseFail

-----------------------------------------------------------------------------
(* Timestamps as the texts the code stores and compares.  CURRENT_TIMESTAMP *)
(* writes "YYYY-MM-DD HH:MM:SS"; Date.toISOString writes                    *)
(* "YYYY-MM-DDTHH:MM:SS.sssZ".  A text is its date, the separator after it  *)
(* and its time of day, compared in that order as the bytes are.            *)

CurrentTimestamp(t) == [day |-> t \div TicksPerDay, sep |-> " ", tod |-> t % TicksPerDay]
ToISOString(t) == [day |-> t \div TicksPerDay, sep |-> "T", tod |-> t % TicksPerDay]

(* The instant a stored text denotes *)
InstantOf(ts) == ts.day * TicksPerDay + ts.tod

SepByte(c) == IF c = " " THEN 32 ELSE 84

(* SQLite's `a < b` on two TEXT values (BINARY collation) *)
TextLess(a, b) ==
  \/ a.day < b.day
  \/ a.day = b.day /\ SepByte(a.sep) < SepByte(b.sep)
  \/ a.day = b.day /\ a.sep = b.sep /\ a.tod < b.tod

-----------------------------------------------------------------------------
(* The inputs the operations are called with *)

SessionIds == {"s1", "s2"}

MeetingLink == "https://meet.google.com/abc"

Summary1 == << [k |-> "highlights", v |-> <<"Decision made">>],
               [k |-> "actions", v |-> <<>>] >>
Metadata1 == << [k |-> "tags", v |-> <<"weekly", "team">>] >>
EmptyObject == <<>>

(* A session object with only id, platform, meetingLink and status given *)
BareSession(id, platform, status) ==
  [id |-> id, platform |-> platform, meetingLink |-> MeetingLink, title |-> NULL,
   status |-> status, oauth_token |-> NULL, meeting_metadata |-> None,
   created_at |-> None, started_at |-> NULL, completed_at |-> NULL,
   summary |-> None, transcript_path |-> NULL, recording_path |-> NULL]

SessionInputs(id) ==
  { BareSession(id, "gmeet", "provisioning"),
    [BareSession(id, "zoom", "recording") EXCEPT
       !.title = "Standup", !.oauth_token = "tok", !.meeting_metadata = Some(Metadata1)],
    [BareSession(id, "cliq", "processing") EXCEPT
       !.title = "", !.oauth_token = "", !.meeting_metadata = Some(EmptyObject)],
    [BareSession(id, "teams", "completed") EXCEPT
       !.title = "Retro", !.summary = Some(Summary1), !.created_at = Some(ToISOString(0)),
       !.started_at = "t1", !.completed_at = "t2",
       !.transcript_path = "/t.txt", !.recording_path = "/r.webm"],
    BareSession(id, "invalid", "provisioning"),
    BareSession(id, "gmeet", "bogus"),
    BareSession(id, "gmeet", NULL),
    [BareSession(id, "gmeet", "provisioning") EXCEPT !.meetingLink = NULL] }

(* A partial update with only a status given *)
BareUpdate(status) ==
  [status |-> status, started_at |-> NULL, completed_at |-> NULL, summary |-> None,
   transcript_path |-> NULL, recording_path |-> NULL]

UpdateInputs ==
  { [BareUpdate("recording") EXCEPT !.started_at = "t1"],
    [BareUpdate("completed") EXCEPT
       !.started_at = "t1", !.completed_at = "t2", !.summary = Some(Summary1),
       !.transcript_path = "/t.txt", !.recording_path = "/r.webm"],
    BareUpdate("completed"),
    [BareUpdate("failed") EXCEPT !.started_at = "", !.summary = Some(EmptyObject)],
    [BareUpdate(NULL) EXCEPT !.summary = Some(Summary1), !.transcript_path = "/t.txt"],
    [BareUpdate("bogus") EXCEPT !.started_at = "t1"] }

(* Participants as callers give them: Jane leaves role and joined_at out, *)
(* Eve has a role the schema does not know, Anon has no name.            *)
Jane == [name |-> "Jane", email |-> "jane@x.com", role |-> NULL, joined_at |-> None,
         platform_user_id |-> NULL]
Bob == [name |-> "Bob", email |-> "bob@x.com", role |-> "organizer",
        joined_at |-> Some(ToISOString(0)), platform_user_id |-> "u2"]
Eve == [Jane EXCEPT !.name = "Eve", !.email = "eve@x.com", !.role = "host"]
Anon == [Jane EXCEPT !.name = NULL]

MemberLists == { <<>>, <<Jane>>, <<Bob, Jane>>, <<Jane, Eve>>, <<Anon>> }

TokenPlatforms == {"gmeet", "zoom"}
UserEmails == {"jane@x.com", "bob@x.com"}
TokenInputs ==
  { [access_token |-> "a1", refresh_token |-> "r1", expires_at |-> "e1", scope |-> "s"],
    [access_token |-> "a2", refresh_token |-> NULL, expires_at |-> NULL, scope |-> NULL],
    [access_token |-> NULL, refresh_token |-> "r3", expires_at |-> NULL, scope |-> NULL] }

-----------------------------------------------------------------------------
(* The state after the module has loaded: initializeDatabase has created   *)
(* the tables, all empty.  txn is the position of a setSessionMembers call  *)
(* between its two commits; last is the outcome of the latest call.         *)

(* fault names the statement at which the engine failed during the call, *)
(* "none" when it did not.                                               *)
NoCall ==
  [op |-> "none", id |-> NULL, arg |-> <<>>, fault |-> "none", raised |-> FALSE, ret |-> <<>>]

Outcome(op, id, arg, fault, raised, ret) ==
  [op |-> op, id |-> id, arg |-> arg, fault |-> fault, raised |-> raised, ret |-> ret]

Idle == [at |-> "idle", id |-> NULL, members |-> <<>>, prior |-> <<>>]

Init ==
  /\ meetings = <<>>
  /\ participants = <<>>
  /\ email_logs = <<>>
  /\ chat_logs = <<>>
  /\ oauth_tokens = <<>>
  /\ system_settings = <<>>
  /\ now = 0
  /\ txn = Idle
  /\ last = NoCall

-----------------------------------------------------------------------------
(* Table meetings: a function from the id (PRIMARY KEY) to the row *)

(* The constraints without the CHECK on status *)
MeetingConstraintsNoStatusCheck(row) ==
  /\ row.platform \in Platforms
  /\ row.meeting_link # NULL
  /\ row.status # NULL

(* The constraints without NOT NULL on status: the CHECK alone lets NULL pass *)
MeetingConstraintsNullableStatus(row) ==
  /\ row.platform \in Platforms
  /\ row.meeting_link # NULL
  /\ (row.status = NULL \/ row.status \in Statuses)

(* NOT NULL and CHECK constraints of the table *)
MeetingConstraints(row) ==
  /\ row.platform \in Platforms
  /\ row.meeting_link # NULL
  /\ row.status \in Statuses

(* The insert with title and oauth_token bound in each other's place *)
InsertedMeetingSwapped(session, t) ==
  [id |-> session.id,
   platform |-> session.platform,
   meeting_link |-> session.meetingLink,
   title |-> OrNull(session.oauth_token),
   status |-> session.status,
   created_at |-> CurrentTimestamp(t),
   started_at |-> NULL,
   completed_at |-> NULL,
   summary_data |-> None,
   transcript_path |-> NULL,
   recording_path |-> NULL,
   oauth_token |-> OrNull(session.title),
   meeting_metadata |-> IF session.meeting_metadata # None
                        THEN Some(JSONStringify(session.meeting_metadata[1]))
                        ELSE None]

(* The columns statements.insertMeeting binds, the rest at their defaults *)
InsertedMeeting(session, t) ==
  [id |-> session.id,
   platform |-> session.platform,
   meeting_link |-> session.meetingLink,
   title |-> OrNull(session.title),
   status |-> session.status,
   created_at |-> CurrentTimestamp(t),
   started_at |-> NULL,
   completed_at |-> NULL,
   summary_data |-> None,
   transcript_path |-> NULL,
   recording_path |-> NULL,
   oauth_token |-> OrNull(session.oauth_token),
   meeting_metadata |-> IF session.meeting_metadata # None
                        THEN Some(JSONStringify(session.meeting_metadata[1]))
                        ELSE None]

(* The insert as INSERT OR REPLACE: an existing id is no conflict *)
InsertMeetingOkOrReplace(table, row) == MeetingConstraints(row)

(* statements.insertMeeting.run succeeds *)
InsertMeetingOk(table, row) ==
  /\ row.id \notin DOMAIN table
  /\ MeetingConstraints(row)

persistSession(session, fault) ==
  LET row == InsertedMeeting(session, now)
      ok == fault = "none" /\ InsertMeetingOk(meetings, row)
  IN /\ txn = Idle
     /\ meetings' = IF ok THEN meetings @@ (session.id :> row) ELSE meetings
     /\ last' = Outcome("persistSession", session.id, session, fault, ~ok,
                        IF ok THEN <<session>> ELSE <<>>)
     /\ UNCHANGED <<participants, email_logs, chat_logs, oauth_tokens,
                    system_settings, now, txn>>

(* A text column is truthy when it is neither NULL nor the empty string *)
TruthyText(text) == text # None /\ text[1] # <<>>

(* The try block if it threw a not-found error for a missing row *)
FetchFromOrNotFound(table, sessionId) ==
  IF sessionId \notin DOMAIN table THEN [raised |-> TRUE, ret |-> <<>>]
  ELSE LET meeting == table[sessionId]
           s == IF TruthyText(meeting.summary_data)
                THEN JSONParse(meeting.summary_data[1]) ELSE ParseFail
           m == IF TruthyText(meeting.meeting_metadata)
                THEN JSONParse(meeting.meeting_metadata[1]) ELSE ParseFail
       IN IF \/ TruthyText(meeting.summary_data) /\ ~s.ok
             \/ TruthyText(meeting.meeting_metadata) /\ ~m.ok
          THEN [raised |-> TRUE, ret |-> <<>>]
          ELSE [raised |-> FALSE,
                ret |-> << [row |-> meeting,
                            summary |-> IF TruthyText(meeting.summary_data)
                                        THEN Some(s.val) ELSE None,
                            metadata |-> IF TruthyText(meeting.meeting_metadata)
                                         THEN Some(m.val) ELSE None] >>]

(* The body of fetchSession's try block on a table: what it returns, or that it threw *)
FetchFrom(table, sessionId) ==
  IF sessionId \notin DOMAIN table THEN [raised |-> FALSE, ret |-> <<>>]
  ELSE LET meeting == table[sessionId]
           s == IF TruthyText(meeting.summary_data)
                THEN JSONParse(meeting.summary_data[1]) ELSE ParseFail
           m == IF TruthyText(meeting.meeting_metadata)
                THEN JSONParse(meeting.meeting_metadata[1]) ELSE ParseFail
       IN IF \/ TruthyText(meeting.summary_data) /\ ~s.ok
             \/ TruthyText(meeting.meeting_metadata) /\ ~m.ok
          THEN [raised |-> TRUE, ret |-> <<>>]
          ELSE [raised |-> FALSE,
                ret |-> << [row |-> meeting,
                            summary |-> IF TruthyText(meeting.summary_data)
                                        THEN Some(s.val) ELSE None,
                            metadata |-> IF TruthyText(meeting.meeting_metadata)
                                         THEN Some(m.val) ELSE None] >>]

(* fetchSession: the catch block rethrows *)
FetchSessionResult(table, sessionId, fault) ==
  IF fault = "get" THEN [raised |-> TRUE, ret |-> <<>>] ELSE FetchFrom(table, sessionId)

fetchSession(sessionId, fault) ==
  LET r == FetchSessionResult(meetings, sessionId, fault)
  IN /\ txn = Idle
     /\ last' = Outcome("fetchSession", sessionId, <<>>, fault, r.raised, r.ret)
     /\ UNCHANGED <<meetings, participants, email_logs, chat_logs, oauth_tokens,
                    system_settings, now, txn>>

(* The update as a merge: a column the partial omits keeps its value *)
UpdatedMeetingMerge(old, updates) ==
  [old EXCEPT
     !.status = OrDefault(updates.status, old.status),
     !.started_at = OrDefault(updates.started_at, old.started_at),
     !.completed_at = OrDefault(updates.completed_at, old.completed_at),
     !.summary_data = IF updates.summary # None
                      THEN Some(JSONStringify(updates.summary[1])) ELSE old.summary_data,
     !.transcript_path = OrDefault(updates.transcript_path, old.transcript_path),
     !.recording_path = OrDefault(updates.recording_path, old.recording_path)]

(* The update as a replacement of the whole row: the columns it does not *)
(* bind are written as NULL                                              *)
UpdatedMeetingWholeRow(old, updates) ==
  [old EXCEPT
     !.status = OrNull(updates.status),
     !.started_at = OrNull(updates.started_at),
     !.completed_at = OrNull(updates.completed_at),
     !.summary_data = IF updates.summary # None
                      THEN Some(JSONStringify(updates.summary[1])) ELSE None,
     !.transcript_path = OrNull(updates.transcript_path),
     !.recording_path = OrNull(updates.recording_path),
     !.title = NULL,
     !.oauth_token = NULL,
     !.meeting_metadata = None]

(* The row statements.updateMeeting writes over the one it finds *)
UpdatedMeeting(old, updates) ==
  [old EXCEPT
     !.status = OrNull(updates.status),
     !.started_at = OrNull(updates.started_at),
     !.completed_at = OrNull(updates.completed_at),
     !.summary_data = IF updates.summary # None
                      THEN Some(JSONStringify(updates.summary[1])) ELSE None,
     !.transcript_path = OrNull(updates.transcript_path),
     !.recording_path = OrNull(updates.recording_path)]

(* fault: "none", or the statement at which the engine fails *)
updateSession(sessionId, updates, fault) ==
  LET exists == sessionId \in DOMAIN meetings
      updOk == /\ fault # "update"
               /\ exists => MeetingConstraints(UpdatedMeeting(meetings[sessionId], updates))
      table == IF updOk /\ exists
               THEN [meetings EXCEPT ![sessionId] = UpdatedMeeting(meetings[sessionId], updates)]
               ELSE meetings
      r == IF updOk THEN FetchSessionResult(table, sessionId, fault)
           ELSE [raised |-> TRUE, ret |-> <<>>]
  IN /\ txn = Idle
     /\ meetings' = table
     /\ last' = Outcome("updateSession", sessionId, updates, fault, r.raised, r.ret)
     /\ UNCHANGED <<participants, email_logs, chat_logs, oauth_tokens,
                    system_settings, now, txn>>

-----------------------------------------------------------------------------
(* Tables participants, email_logs and chat_logs: sequences of rows in     *)
(* rowid order.  Their ids come from randomUUID: an id no row of the       *)
(* table holds.                                                            *)

RandomUUID(table) ==
  CHOOSE n \in 1..(Len(table) + 1) : \A i \in 1..Len(table) : table[i].id # n

(* SELECT * FROM <table> WHERE meeting_id = ? *)
RowsOfMeeting(table, meetingId) ==
  LET Keep(r) == r.meeting_id = meetingId IN SelectSeq(table, Keep)

(* DELETE FROM participants, without its WHERE *)
DeleteOfMeetingAll(table, meetingId) == <<>>

(* DELETE FROM <table> WHERE meeting_id = ? *)
DeleteOfMeeting(table, meetingId) ==
  LET Keep(r) == r.meeting_id # meetingId IN SelectSeq(table, Keep)

(* FOREIGN KEY (meeting_id) REFERENCES meetings (id), a NULL reference allowed *)
ForeignKeyOk(meetingId) == meetingId = NULL \/ meetingId \in DOMAIN meetings

(* NOT NULL, CHECK and FOREIGN KEY constraints of participants *)
ParticipantConstraints(row) ==
  /\ row.meeting_id # NULL /\ ForeignKeyOk(row.meeting_id)
  /\ row.name # NULL
  /\ row.email # NULL
  /\ row.role \in Roles

(* The row statements.insertParticipant binds *)
InsertedParticipant(id, sessionId, participant, t) ==
  [id |-> id,
   meeting_id |-> sessionId,
   name |-> participant.name,
   email |-> participant.email,
   role |-> OrDefault(participant.role, "participant"),
   joined_at |-> IF participant.joined_at # None
                 THEN participant.joined_at[1] ELSE ToISOString(t),
   left_at |-> NULL,
   platform_user_id |-> OrNull(participant.platform_user_id)]

(* db.transaction over the inserts of the list: every insert runs, or the   *)
(* first one that raises (on a constraint, or the engine at insert faultAt) *)
(* rolls all of them back.  A new id is the id of no row, nor of a row the  *)
(* call has deleted.                                                        *)
RECURSIVE InsertAll(_, _, _, _, _)
InsertAll(table, sessionId, members, i, faultAt) ==
  IF i > Len(members) THEN [ok |-> TRUE, table |-> table]
  ELSE LET row == InsertedParticipant(RandomUUID(txn.prior \o table), sessionId, members[i], now)
       IN IF i = faultAt \/ ~ParticipantConstraints(row)
          THEN [ok |-> FALSE, table |-> table]
          ELSE InsertAll(Append(table, row), sessionId, members, i + 1, faultAt)

InsertTransaction(table, sessionId, members, faultAt) ==
  LET r == InsertAll(table, sessionId, members, 1, faultAt)
  IN IF r.ok THEN r ELSE [ok |-> FALSE, table |-> table]

(* setSessionMembers, its first statement: the DELETE, committed on its own. *)
(* fault: the engine fails at the DELETE and the call raises.                *)
setSessionMembersDelete(sessionId, members, fault) ==
  /\ txn = Idle
  /\ IF fault
     THEN /\ last' = Outcome("setSessionMembers", sessionId, members, "delete", TRUE, <<>>)
          /\ UNCHANGED <<participants, txn>>
     ELSE /\ participants' = DeleteOfMeeting(participants, sessionId)
          /\ txn' = [at |-> "deleted", id |-> sessionId, members |-> members,
                     prior |-> RowsOfMeeting(participants, sessionId)]
          /\ UNCHANGED last
  /\ UNCHANGED <<meetings, email_logs, chat_logs, oauth_tokens, system_settings, now>>

(* setSessionMembers, the rest: the insert transaction and the return. *)
(* faultAt: the insert at which the engine fails, 0 for none.          *)
setSessionMembersInsert(faultAt) ==
  LET r == InsertTransaction(participants, txn.id, txn.members, faultAt)
  IN /\ txn.at = "deleted"
     /\ participants' = r.table
     /\ txn' = Idle
     /\ last' = Outcome("setSessionMembers", txn.id, txn.members,
                        IF faultAt = 0 THEN "none" ELSE "insert",
                        ~r.ok, IF r.ok THEN txn.members ELSE <<>>)
     /\ UNCHANGED <<meetings, email_logs, chat_logs, oauth_tokens, system_settings, now>>

(* membersForSession: the catch block returns [] *)
MembersForSessionResult(sessionId, fault) ==
  IF fault = "all" THEN <<>> ELSE RowsOfMeeting(participants, sessionId)

(* membersForSession on the writer's own connection *)
membersForSession(sessionId, fault) ==
  /\ txn = Idle
  /\ last' = Outcome("membersForSession", sessionId, <<>>, fault, FALSE,
                     MembersForSessionResult(sessionId, fault))
  /\ UNCHANGED <<meetings, participants, email_logs, chat_logs, oauth_tokens,
                 system_settings, now, txn>>

(* membersForSession on another connection to the database file, which *)
(* reads what is committed while the writer is inside setSessionMembers *)
membersForSessionConcurrent(sessionId) ==
  /\ txn.at = "deleted"
  /\ last' = Outcome("membersForSession", sessionId, <<>>, "none", FALSE,
                     MembersForSessionResult(sessionId, "none"))
  /\ UNCHANGED <<meetings, participants, email_logs, chat_logs, oauth_tokens,
                 system_settings, now, txn>>

(* addParticipant written as a replacement by the one participant *)
addParticipantReplacing(sessionId, participant, fault) ==
  LET participantId == RandomUUID(participants)
      row == InsertedParticipant(participantId, sessionId, participant, now)
      ok == fault = "none" /\ ParticipantConstraints(row)
  IN /\ txn = Idle
     /\ participants' = IF ok THEN Append(DeleteOfMeeting(participants, sessionId), row)
                        ELSE participants
     /\ last' = Outcome("addParticipant", sessionId, participant, fault, ~ok,
                        IF ok THEN <<participantId>> ELSE <<>>)
     /\ UNCHANGED <<meetings, email_logs, chat_logs, oauth_tokens, system_settings,
                    now, txn>>

addParticipant(sessionId, participant, fault) ==
  LET participantId == RandomUUID(participants)
      row == InsertedParticipant(participantId, sessionId, participant, now)
      ok == fault = "none" /\ ParticipantConstraints(row)
  IN /\ txn = Idle
     /\ participants' = IF ok THEN Append(participants, row) ELSE participants
     /\ last' = Outcome("addParticipant", sessionId, participant, fault, ~ok,
                        IF ok THEN <<participantId>> ELSE <<>>)
     /\ UNCHANGED <<meetings, email_logs, chat_logs, oauth_tokens, system_settings,
                    now, txn>>

(* NOT NULL, CHECK and FOREIGN KEY constraints of email_logs *)
EmailLogConstraints(row) ==
  /\ row.meeting_id # NULL /\ ForeignKeyOk(row.meeting_id)
  /\ row.recipient_email # NULL
  /\ row.status \in EmailStatuses

(* sent_at with the timestamp written whatever the status *)
SentAtAlways(status, t) == Some(ToISOString(t))

(* sent_at as logEmailSend and updateEmailStatus compute it *)
SentAt(status, t) == IF status = "sent" THEN Some(ToISOString(t)) ELSE None

logEmailSend(meetingId, recipientEmail, status, errorMessage, fault) ==
  LET logId == RandomUUID(email_logs)
      row == [id |-> logId, meeting_id |-> meetingId, recipient_email |-> recipientEmail,
              status |-> status, sent_at |-> SentAt(status, now),
              error_message |-> errorMessage, retry_count |-> 0]
      ok == fault = "none" /\ EmailLogConstraints(row)
  IN /\ txn = Idle
     /\ email_logs' = IF ok THEN Append(email_logs, row) ELSE email_logs
     /\ last' = Outcome("logEmailSend", meetingId, status, fault, ~ok,
                        IF ok THEN <<logId>> ELSE <<>>)
     /\ UNCHANGED <<meetings, participants, chat_logs, oauth_tokens, system_settings,
                    now, txn>>

(* The rows of email_logs after UPDATE email_logs SET status = ?, sent_at = ?, *)
(* error_message = ?, retry_count = ? WHERE id = ?                            *)
UpdatedEmailLogs(logId, status, errorMessage, retryCount, t) ==
  [i \in 1..Len(email_logs) |->
     IF email_logs[i].id = logId
     THEN [email_logs[i] EXCEPT !.status = status, !.sent_at = SentAt(status, t),
                                !.error_message = errorMessage,
                                !.retry_count = retryCount]
     ELSE email_logs[i]]

(* updateEmailStatus: the UPDATE checks the constraints of the row it changes; *)
(* with no row of that id it changes nothing and does not fail.                *)
updateEmailStatus(logId, status, errorMessage, retryCount, fault) ==
  LET found == {i \in 1..Len(email_logs) : email_logs[i].id = logId}
      prior == IF found = {} THEN None ELSE Some(email_logs[CHOOSE i \in found : TRUE])
      raised == fault # "none" \/ (found # {} /\ status \notin EmailStatuses)
  IN /\ txn = Idle
     /\ email_logs' = IF raised THEN email_logs
                      ELSE UpdatedEmailLogs(logId, status, errorMessage, retryCount, now)
     /\ last' = Outcome("updateEmailStatus", logId, [status |-> status, prior |-> prior],
                        fault, raised, <<>>)
     /\ UNCHANGED <<meetings, participants, chat_logs, oauth_tokens, system_settings,
                    now, txn>>

(* An id property that is not given *)
NoId == 0

(* PRIMARY KEY, NOT NULL and FOREIGN KEY constraints of chat_logs *)
ChatLogConstraints(row) ==
  /\ ForeignKeyOk(row.meeting_id)
  /\ row.prompt # NULL /\ row.response # NULL /\ row.platform # NULL
  /\ \A i \in 1..Len(chat_logs) : chat_logs[i].id # row.id

logChat(chatData, fault) ==
  LET row == [id |-> IF chatData.id # NoId THEN chatData.id ELSE RandomUUID(chat_logs),
              meeting_id |-> OrNull(chatData.meeting_id),
              prompt |-> chatData.prompt, response |-> chatData.response,
              platform |-> chatData.platform, created_at |-> CurrentTimestamp(now)]
      ok == fault = "none" /\ ChatLogConstraints(row)
  IN /\ txn = Idle
     /\ chat_logs' = IF ok THEN Append(chat_logs, row) ELSE chat_logs
     /\ last' = Outcome("logChat", row.meeting_id, <<>>, fault, ~ok, <<>>)
     /\ UNCHANGED <<meetings, participants, email_logs, oauth_tokens, system_settings,
                    now, txn>>

-----------------------------------------------------------------------------
(* Maintenance *)

(* cutoffDate: now, with its date set daysToKeep days back, as toISOString writes it *)
CutoffDate(t, daysToKeep) == ToISOString(t - daysToKeep * TicksPerDay)

(* DELETE FROM meetings WHERE created_at < ? AND status = 'completed': the ids it deletes *)
OldMeetings(cutoff) ==
  {id \in DOMAIN meetings :
     TextLess(meetings[id].created_at, cutoff) /\ meetings[id].status = "completed"}

(* The delete with foreign keys not enforced: the child rows stay *)
CascadeOff(table, deleted) == table

(* ON DELETE CASCADE: the rows of a child table that survive the delete *)
Cascade(table, deleted) ==
  LET Keep(r) == r.meeting_id \notin deleted IN SelectSeq(table, Keep)

(* ON DELETE CASCADE in the place of SET NULL *)
SetNullAsCascade(table, deleted) == Cascade(table, deleted)

(* ON DELETE SET NULL *)
SetNull(table, deleted) ==
  [i \in 1..Len(table) |->
     IF table[i].meeting_id \in deleted THEN [table[i] EXCEPT !.meeting_id = NULL]
     ELSE table[i]]

(* cleanupOldData: the catch block returns 0 *)
cleanupOldData(daysToKeep, fault) ==
  LET deleted == IF fault = "none" THEN OldMeetings(CutoffDate(now, daysToKeep)) ELSE {}
  IN /\ txn = Idle
     /\ meetings' = [id \in DOMAIN meetings \ deleted |-> meetings[id]]
     /\ participants' = Cascade(participants, deleted)
     /\ email_logs' = Cascade(email_logs, deleted)
     /\ chat_logs' = SetNull(chat_logs, deleted)
     /\ last' = Outcome("cleanupOldData", NULL, [daysToKeep |-> daysToKeep, deleted |-> deleted],
                        fault, FALSE, <<Cardinality(deleted)>>)
     /\ UNCHANGED <<oauth_tokens, system_settings, now, txn>>

(* Time passes *)
Tick ==
  /\ txn = Idle
  /\ now < MaxTime
  /\ now' = now + 1
  /\ UNCHANGED <<meetings, participants, email_logs, chat_logs, oauth_tokens,
                 system_settings, txn, last>>

-----------------------------------------------------------------------------
(* Table oauth_tokens: rows in rowid order; id is the PRIMARY KEY and the *)
(* only uniqueness the table declares.                                    *)

(* NOT NULL constraints of oauth_tokens *)
TokenConstraints(row) == row.platform # NULL /\ row.access_token # NULL

(* INSERT OR REPLACE: the table with the row in place of any row of its id *)
InsertOrReplace(table, row) ==
  LET Keep(r) == r.id # row.id IN Append(SelectSeq(table, Keep), row)

storeOAuthToken(platform, tokenData, userEmail, fault) ==
  LET tokenId == RandomUUID(oauth_tokens)
      row == [id |-> tokenId, platform |-> platform,
              access_token |-> tokenData.access_token,
              refresh_token |-> OrNull(tokenData.refresh_token),
              expires_at |-> OrNull(tokenData.expires_at),
              scope |-> OrNull(tokenData.scope),
              user_email |-> userEmail]
      ok == fault = "none" /\ TokenConstraints(row)
  IN /\ txn = Idle
     /\ oauth_tokens' = IF ok THEN InsertOrReplace(oauth_tokens, row) ELSE oauth_tokens
     /\ last' = Outcome("storeOAuthToken", platform, [tokenData |-> tokenData, userEmail |-> userEmail],
                        fault, ~ok, IF ok THEN <<tokenId>> ELSE <<>>)
     /\ UNCHANGED <<meetings, participants, email_logs, chat_logs, system_settings,
                    now, txn>>

(* SELECT * FROM oauth_tokens WHERE platform = ? AND user_email = ? *)
TokensOf(platform, userEmail) ==
  LET Keep(r) == r.platform = platform /\ r.user_email # NULL /\ r.user_email = userEmail
  IN SelectSeq(oauth_tokens, Keep)

(* getOAuthToken: .get gives the first row of the result; the catch block returns null *)
getOAuthToken(platform, userEmail, fault) ==
  LET found == TokensOf(platform, userEmail)
  IN /\ txn = Idle
     /\ last' = Outcome("getOAuthToken", platform, userEmail, fault, FALSE,
                        IF fault = "none" /\ found # <<>> THEN <<found[1]>> ELSE <<>>)
     /\ UNCHANGED <<meetings, participants, email_logs, chat_logs, oauth_tokens,
                    system_settings, now, txn>>

-----------------------------------------------------------------------------
(* Table system_settings: rows in rowid order; key is the PRIMARY KEY.  A  *)
(* setting's value is a JS value: an object, or one of the literals null, *)
(* true and false; None is undefined.                                     *)

Object(obj) == [kind |-> "object", val |-> obj]
Literal(name) == [kind |-> name, val |-> <<>>]

(* JSON.stringify of a setting's value *)
StringifyValue(value) ==
  IF value.kind = "object" THEN JSONStringify(value.val) ELSE <<Punct(value.kind)>>

(* JSON.parse of a stored text to a setting's value *)
ParseValue(toks) ==
  IF Len(toks) = 1 /\ ~toks[1].q /\ toks[1].s \in {"null", "true", "false"}
  THEN [ok |-> TRUE, val |-> Literal(toks[1].s), rest |-> <<>>]
  ELSE LET r == JSONParse(toks)
       IN IF r.ok THEN [r EXCEPT !.val = Object(r.val)] ELSE ParseFail

(* INSERT OR IGNORE: the row is dropped when its key is taken *)
ReplaceSettingIgnore(table, row) ==
  IF \E i \in 1..Len(table) : table[i].key = row.key THEN table ELSE Append(table, row)

(* INSERT OR REPLACE INTO system_settings: the row in place of the row of its key *)
ReplaceSetting(table, row) ==
  LET Keep(r) == r.key # row.key IN Append(SelectSeq(table, Keep), row)

(* SELECT value FROM system_settings WHERE key = ? *)
SettingRows(key) ==
  LET Keep(r) == r.key = key IN SelectSeq(system_settings, Keep)

(* setSetting.  JSON.stringify of undefined is undefined, which the *)
(* statement cannot bind.                                           *)
setSetting(key, value, fault) ==
  LET ok == fault = "none" /\ value # None
      row == [key |-> key, value |-> StringifyValue(value[1]),
              updated_at |-> CurrentTimestamp(now)]
  IN /\ txn = Idle
     /\ system_settings' = IF ok THEN ReplaceSetting(system_settings, row)
                           ELSE system_settings
     /\ last' = Outcome("setSetting", key, [value |-> value, prior |-> SettingRows(key)],
                        fault, ~ok, <<>>)
     /\ UNCHANGED <<meetings, participants, email_logs, chat_logs, oauth_tokens, now, txn>>

(* What getSetting returns: the default when the key has no row, and from *)
(* the catch block                                                        *)
GetSettingResult(key, defaultValue, fault) ==
  LET rows == SettingRows(key)
      parsed == ParseValue(rows[1].value)
  IN IF fault # "none" \/ rows = <<>> THEN defaultValue
     ELSE IF parsed.ok THEN parsed.val ELSE defaultValue

getSetting(key, defaultValue, fault) ==
  /\ txn = Idle
  /\ last' = Outcome("getSetting", key, defaultValue, fault, FALSE,
                     <<GetSettingResult(key, defaultValue, fault)>>)
  /\ UNCHANGED <<meetings, participants, email_logs, chat_logs, oauth_tokens,
                 system_settings, now, txn>>

-----------------------------------------------------------------------------
(* Listings and statistics *)

(* The orders ORDER BY created_at DESC may give the rows in: rows of equal *)
(* created_at come in any order.                                           *)
OrdersDesc(rows) ==
  LET n == Len(rows)
  IN { [i \in 1..n |-> rows[f[i]]] :
         f \in { g \in [1..n -> 1..n] :
                   /\ \A i, j \in 1..n : i # j => g[i] # g[j]
                   /\ \A i, j \in 1..n :
                        i < j => ~TextLess(rows[g[i]].created_at, rows[g[j]].created_at) } }

(* The rows of meetings as a sequence *)
RECURSIVE MeetingRows(_)
MeetingRows(ids) ==
  IF ids = {} THEN <<>>
  ELSE LET id == CHOOSE x \in ids : TRUE
       IN <<meetings[id]>> \o MeetingRows(ids \ {id})

Min(a, b) == IF a < b THEN a ELSE b

(* LIMIT ? OFFSET ?: a negative limit is no limit *)
LimitOffset(rows, limit, offset) ==
  SubSeq(rows, offset + 1, IF limit < 0 THEN Len(rows) ELSE Min(Len(rows), offset + limit))

(* recentSessions: the catch block returns [] *)
recentSessions(limit, offset, fault) ==
  /\ txn = Idle
  /\ \E rows \in OrdersDesc(MeetingRows(DOMAIN meetings)) :
       last' = Outcome("recentSessions", NULL, [limit |-> limit, offset |-> offset],
                       fault, FALSE,
                       IF fault = "none" THEN LimitOffset(rows, limit, offset) ELSE <<>>)
  /\ UNCHANGED <<meetings, participants, email_logs, chat_logs, oauth_tokens,
                 system_settings, now, txn>>

(* SELECT * FROM meetings WHERE status = ?, counted *)
CountByStatus(statuses) ==
  Cardinality({id \in DOMAIN meetings : meetings[id].status \in statuses})

(* pendingSessionsCount: the catch block returns 0 *)
pendingSessionsCount(fault) ==
  /\ txn = Idle
  /\ last' = Outcome("pendingSessionsCount", NULL, <<>>, fault, FALSE,
                     IF fault = "none"
                     THEN <<CountByStatus({"recording"}) + CountByStatus({"processing"})>>
                     ELSE <<0>>)
  /\ UNCHANGED <<meetings, participants, email_logs, chat_logs, oauth_tokens,
                 system_settings, now, txn>>

(* getEmailLogsForMeeting: the catch block returns [] *)
getEmailLogsForMeeting(meetingId, fault) ==
  /\ txn = Idle
  /\ last' = Outcome("getEmailLogsForMeeting", meetingId, <<>>, fault, FALSE,
                     IF fault = "none" THEN RowsOfMeeting(email_logs, meetingId) ELSE <<>>)
  /\ UNCHANGED <<meetings, participants, email_logs, chat_logs, oauth_tokens,
                 system_settings, now, txn>>

(* The email logs that are pending: the query with "pending" only *)
PendingEmailsOnlyPending ==
  LET Keep(r) == r.status = "pending" IN SelectSeq(email_logs, Keep)

(* SELECT * FROM email_logs WHERE status = "pending" OR status = "failed" *)
PendingEmails ==
  LET Keep(r) == r.status = "pending" \/ r.status = "failed" IN SelectSeq(email_logs, Keep)

(* statements.getPendingEmails run by the retry sweep *)
getPendingEmails ==
  /\ txn = Idle
  /\ last' = Outcome("getPendingEmails", NULL, <<>>, "none", FALSE, PendingEmails)
  /\ UNCHANGED <<meetings, participants, email_logs, chat_logs, oauth_tokens,
                 system_settings, now, txn>>

(* getChatHistory: the newest `limit` chat logs of the meeting; the catch block returns [] *)
getChatHistory(meetingId, limit, fault) ==
  /\ txn = Idle
  /\ \E rows \in OrdersDesc(RowsOfMeeting(chat_logs, meetingId)) :
       last' = Outcome("getChatHistory", meetingId, limit, fault, FALSE,
                       IF fault = "none" THEN SubSeq(rows, 1, Min(Len(rows), limit))
                       ELSE <<>>)
  /\ UNCHANGED <<meetings, participants, email_logs, chat_logs, oauth_tokens,
                 system_settings, now, txn>>

(* The quotient of two naturals truncated, as Math.floor gives it *)
RoundDivFloor(a, b) == a \div b

(* Math.round of the quotient a / b of two naturals, b > 0 *)
RoundDiv(a, b) == (2 * a + b) \div (2 * b)

(* The days of the window of recentActivity *)
RecentDays == 30

(* GROUP BY: the values of a key (a function of the id) among the ids, *)
(* each with its count                                                 *)
GroupCount(ids, key) ==
  { [key |-> k, count |-> Cardinality({id \in ids : key[id] = k})] :
      k \in {key[id] : id \in ids} }

(* getMeetingStats: the catch block returns the zero statistics *)
MeetingStats ==
  LET totalMeetings == Cardinality(DOMAIN meetings)
      completedMeetings == CountByStatus({"completed"})
      platformOf == [id \in DOMAIN meetings |-> meetings[id].platform]
      dateOf == [id \in DOMAIN meetings |-> meetings[id].created_at.day]
      recent == {id \in DOMAIN meetings :
                   ~TextLess(meetings[id].created_at,
                             CurrentTimestamp(now - RecentDays * TicksPerDay))}
  IN [totalMeetings |-> totalMeetings,
      completedMeetings |-> completedMeetings,
      activeSessions |-> CountByStatus({"recording", "processing"}),
      completionRate |-> IF totalMeetings > 0
                         THEN RoundDiv(completedMeetings * 100, totalMeetings) ELSE 0,
      platformStats |-> GroupCount(DOMAIN meetings, platformOf),
      recentActivity |-> GroupCount(recent, dateOf)]

ZeroStats ==
  [totalMeetings |-> 0, completedMeetings |-> 0, activeSessions |-> 0,
   completionRate |-> 0, platformStats |-> {}, recentActivity |-> {}]

getMeetingStats(fault) ==
  /\ txn = Idle
  /\ last' = Outcome("getMeetingStats", NULL, <<>>, fault, FALSE,
                     IF fault = "none" THEN <<MeetingStats>> ELSE <<ZeroStats>>)
  /\ UNCHANGED <<meetings, participants, email_logs, chat_logs, oauth_tokens,
                 system_settings, now, txn>>

-----------------------------------------------------------------------------
(* Sessions alone: created, updated and read back *)

NextSessions ==
  \/ \E id \in SessionIds : \E s \in SessionInputs(id) : \E fault \in {"none", "insert"} :
       persistSession(s, fault)
  \/ \E id \in SessionIds : \E u \in UpdateInputs :
       \E fault \in {"none", "update", "get"} : updateSession(id, u, fault)
  \/ \E id \in SessionIds : \E fault \in {"none", "get"} : fetchSession(id, fault)

SpecSessions == Init /\ [][NextSessions]_vars

(* Participant lists: replaced, added to and read, also from another connection *)

MemberSessions(id) == { BareSession(id, "gmeet", "provisioning") }

NextMembers ==
  \/ \E id \in SessionIds : \E s \in MemberSessions(id) : persistSession(s, "none")
  \/ \E id \in SessionIds : \E members \in MemberLists : \E fault \in BOOLEAN :
       /\ Len(DeleteOfMeeting(participants, id)) + Len(members) <= MaxParticipants
       /\ setSessionMembersDelete(id, members, fault)
  \/ \E faultAt \in 0..MaxParticipants :
       /\ faultAt <= Len(txn.members)
       /\ setSessionMembersInsert(faultAt)
  \/ \E id \in SessionIds : membersForSessionConcurrent(id)
  \/ \E id \in SessionIds : \E fault \in {"none", "all"} : membersForSession(id, fault)
  \/ \E id \in SessionIds : \E p \in {Jane, Bob, Eve} : \E fault \in {"none", "insert"} :
       /\ Len(participants) < MaxParticipants
       /\ addParticipant(id, p, fault)

SpecMembers == Init /\ [][NextMembers]_vars

(* OAuth tokens: stored and looked up *)

NextTokens ==
  \/ \E platform \in TokenPlatforms : \E t \in TokenInputs : \E email \in UserEmails :
       \E fault \in {"none", "insert"} :
         /\ Len(oauth_tokens) < MaxTokens
         /\ storeOAuthToken(platform, t, email, fault)
  \/ \E platform \in TokenPlatforms : \E email \in UserEmails :
       \E fault \in {"none", "get"} : getOAuthToken(platform, email, fault)

SpecTokens == Init /\ [][NextTokens]_vars

(* Retention: sessions age, complete and are cleaned up *)

CleanupSessions(id) ==
  { BareSession(id, "gmeet", "completed"), BareSession(id, "zoom", "recording") }

CleanupUpdates == { BareUpdate("completed"), BareUpdate("failed") }

NextCleanup ==
  \/ \E id \in SessionIds : \E s \in CleanupSessions(id) : persistSession(s, "none")
  \/ \E id \in SessionIds : \E u \in CleanupUpdates : updateSession(id, u, "none")
  \/ \E daysToKeep \in 0..MaxDaysToKeep : \E fault \in {"none", "delete"} :
       cleanupOldData(daysToKeep, fault)
  \/ Tick

SpecCleanup == Init /\ [][NextCleanup]_vars

(* Ownership: sessions with their participants and email logs *)

ChatInputs(ids) ==
  { [id |-> NoId, meeting_id |-> m, prompt |-> "what was decided?", response |-> "ship it",
     platform |-> "cliq"] : m \in ids \cup {NULL} }

NextOwnership ==
  \/ \E id \in SessionIds : \E s \in CleanupSessions(id) : persistSession(s, "none")
  \/ \E id \in SessionIds : \E p \in {Bob, Eve} : \E fault \in {"none", "insert"} :
       /\ Len(participants) < MaxOwned
       /\ addParticipant(id, p, fault)
  \/ \E id \in SessionIds : \E members \in {<<>>, <<Bob>>, <<Bob, Eve>>} :
       /\ Len(DeleteOfMeeting(participants, id)) + Len(members) <= MaxOwned
       /\ setSessionMembersDelete(id, members, FALSE)
  \/ \E faultAt \in 0..MaxOwned :
       /\ faultAt <= Len(txn.members)
       /\ setSessionMembersInsert(faultAt)
  \/ \E id \in SessionIds : \E status \in {"pending", "queued"} :
       /\ Len(email_logs) < MaxLogs
       /\ logEmailSend(id, "jane@x.com", status, NULL, "none")
  \/ \E fault \in {"none", "delete"} : cleanupOldData(0, fault)

SpecOwnership == Init /\ [][NextOwnership]_vars

(* Reads: every table filled through its own operation and read back, with *)
(* the engine failing or not                                                *)

SettingKeys == {"retention"}

NextReads ==
  \/ \E s \in CleanupSessions("s1") \cup MemberSessions("s2") : persistSession(s, "none")
  \/ \E id \in SessionIds :
       /\ Len(participants) < MaxLogs
       /\ addParticipant(id, Bob, "none")
  \/ \E id \in SessionIds :
       /\ Len(email_logs) < MaxLogs
       /\ logEmailSend(id, "jane@x.com", "pending", NULL, "none")
  \/ \E c \in ChatInputs({"s1"}) :
       /\ Len(chat_logs) < MaxLogs
       /\ logChat(c, "none")
  \/ /\ Len(oauth_tokens) < MaxLogs
     /\ storeOAuthToken("gmeet", CHOOSE t \in TokenInputs : t.access_token = "a1",
                        "jane@x.com", "none")
  \/ \E key \in SettingKeys : \E value \in {None, Some(Object(Metadata1))} :
       setSetting(key, value, "none")
  \/ \E id \in SessionIds : \E fault \in {"none", "get"} : fetchSession(id, fault)
  \/ \E limit \in {0, 1, 10} : \E offset \in {0, 1} : \E fault \in {"none", "all"} :
       recentSessions(limit, offset, fault)
  \/ \E fault \in {"none", "all"} : pendingSessionsCount(fault)
  \/ \E id \in SessionIds : \E fault \in {"none", "all"} : membersForSession(id, fault)
  \/ \E id \in SessionIds : \E fault \in {"none", "all"} : getEmailLogsForMeeting(id, fault)
  \/ \E id \in SessionIds : \E limit \in {1, 50} : \E fault \in {"none", "all"} :
       getChatHistory(id, limit, fault)
  \/ \E email \in UserEmails : \E fault \in {"none", "get"} :
       getOAuthToken("gmeet", email, fault)
  \/ \E key \in SettingKeys : \E fault \in {"none", "get"} :
       getSetting(key, Literal("null"), fault)
  \/ \E fault \in {"none", "all"} : getMeetingStats(fault)

SpecReads == Init /\ [][NextReads]_vars

(* Email logs: logged, updated by the dispatcher, listed for the retry sweep *)
(* and deleted with their session                                           *)

EmailUpdates ==
  { [status |-> "sent", errorMessage |-> NULL, retryCount |-> 0],
    [status |-> "failed", errorMessage |-> "smtp 550", retryCount |-> 1],
    [status |-> "bounced", errorMessage |-> "smtp 550", retryCount |-> 0],
    [status |-> "pending", errorMessage |-> NULL, retryCount |-> 1],
    [status |-> "queued", errorMessage |-> NULL, retryCount |-> 0] }

EmailSessions ==
  { BareSession("s1", "gmeet", "completed"), BareSession("s2", "zoom", "recording") }

NextEmails ==
  \/ \E s \in EmailSessions : persistSession(s, "none")
  \/ \E id \in SessionIds : \E status \in {"pending", "sent", "failed", "queued"} :
       /\ Len(email_logs) < MaxEmails
       /\ logEmailSend(id, "jane@x.com", status, NULL, "none")
  \/ \E logId \in 1..(MaxEmails + 1) : \E u \in EmailUpdates :
       updateEmailStatus(logId, u.status, u.errorMessage, u.retryCount, "none")
  \/ \E fault \in {"none", "update"} :
       updateEmailStatus(1, IF fault = "none" THEN NULL ELSE "sent", NULL, 0, fault)
  \/ getPendingEmails
  \/ cleanupOldData(0, "none")

SpecEmails == Init /\ [][NextEmails]_vars

(* Statistics: sessions are created, complete and are cleaned up, and the *)
(* dashboard reads the statistics                                         *)

StatsIdSeq == <<"s1", "s2", "s3", "s4", "s5">>

StatsIds == { StatsIdSeq[i] : i \in 1..MaxStatsSessions }

NextStats ==
  \/ \E id \in StatsIds : \E s \in CleanupSessions(id) : persistSession(s, "none")
  \/ \E id \in StatsIds : updateSession(id, BareUpdate("completed"), "none")
  \/ cleanupOldData(0, "none")
  \/ \E fault \in {"none", "all"} : getMeetingStats(fault)

SpecStats == Init /\ [][NextStats]_vars

(* Settings: written, overwritten and read back *)

StoredKeys == {"retention", "theme"}

SettingValues ==
  { None, Some(Object(Metadata1)), Some(Object(EmptyObject)),
    Some(Literal("false")), Some(Literal("null")) }

SettingDefaults == { Literal("null"), Literal("true"), Object(EmptyObject) }

NextSettings ==
  \/ \E key \in StoredKeys : \E value \in SettingValues : \E fault \in {"none", "insert"} :
       setSetting(key, value, fault)
  \/ \E key \in StoredKeys : \E d \in SettingDefaults : \E fault \in {"none", "get"} :
       getSetting(key, d, fault)

SpecSettings == Init /\ [][NextSettings]_vars

(* Chat logs: logged with and without a session, read, and kept when the *)
(* session is cleaned up                                                 *)

GivenChatId == 9

ChatsLogged ==
  ChatInputs(SessionIds) \cup
    { [id |-> GivenChatId, meeting_id |-> "s1", prompt |-> "who joined?",
       response |-> "Bob", platform |-> "gmeet"] }

NextChats ==
  \/ \E s \in EmailSessions : persistSession(s, "none")
  \/ \E id \in SessionIds : updateSession(id, BareUpdate("completed"), "none")
  \/ \E c \in ChatsLogged : \E fault \in {"none", "insert"} :
       /\ Len(chat_logs) < MaxChats
       /\ logChat(c, fault)
  \/ \E id \in SessionIds : \E fault \in {"none", "all"} : getChatHistory(id, 1, fault)
  \/ \E fault \in {"none", "delete"} : cleanupOldData(0, fault)

SpecChats == Init /\ [][NextChats]_vars

(* Updates of sessions in a store whose every table holds rows *)

FrameSession(id) ==
  [BareSession(id, "zoom", "recording") EXCEPT
     !.title = "Standup", !.oauth_token = "tok", !.meeting_metadata = Some(Metadata1)]

FrameUpdates ==
  { [BareUpdate("completed") EXCEPT
       !.started_at = "t1", !.completed_at = "t2", !.summary = Some(Summary1),
       !.transcript_path = "/t.txt", !.recording_path = "/r.webm"],
    BareUpdate("failed"),
    [BareUpdate(NULL) EXCEPT !.summary = Some(Summary1), !.transcript_path = "/t.txt"] }

NextFrame ==
  \/ \E id \in SessionIds : persistSession(FrameSession(id), "none")
  \/ /\ Len(participants) < MaxLogs
     /\ addParticipant("s1", Bob, "none")
  \/ /\ Len(email_logs) < MaxLogs
     /\ logEmailSend("s2", "jane@x.com", "pending", NULL, "none")
  \/ \E c \in ChatInputs({"s1"}) :
       /\ Len(chat_logs) < MaxLogs
       /\ logChat(c, "none")
  \/ /\ Len(oauth_tokens) < MaxLogs
     /\ storeOAuthToken("zoom", CHOOSE t \in TokenInputs : t.access_token = "a1",
                        "jane@x.com", "none")
  \/ setSetting("retention", Some(Object(Metadata1)), "none")
  \/ \E id \in SessionIds : \E u \in FrameUpdates : \E fault \in {"none", "update"} :
       updateSession(id, u, fault)

SpecFrame == Init /\ [][NextFrame]_vars

-----------------------------------------------------------------------------
(* Properties *)

(* Every table but meetings, and the clock *)
otherTables == <<participants, email_logs, chat_logs, oauth_tokens, system_settings, now>>

(* A setSessionMembers call ends in this step, raising *)
ReplaceFailed ==
  \/ txn.at = "deleted" /\ txn'.at = "idle" /\ last'.raised
  \/ txn.at = "idle" /\ txn'.at = "idle" /\ last' # last
       /\ last'.op = "setSessionMembers" /\ last'.raised

(* The session the ending call was for *)
ReplacedId == IF txn.at = "deleted" THEN txn.id ELSE last'.id

(* The participants the session had when the call began *)
ReplacedPrior ==
  IF txn.at = "deleted" THEN txn.prior ELSE RowsOfMeeting(participants, last'.id)

(* C1: when setSessionMembers raises, the session's participants are the *)
(* rows it had before the call: none is lost, none of the new list kept.  *)
C1_FailedReplaceKeepsPrior ==
  [][ReplaceFailed => RowsOfMeeting(participants', ReplacedId) = ReplacedPrior]_vars

(* The rows are those of the list given: one per element, in order *)
IsListOf(rows, members) ==
  /\ Len(rows) = Len(members)
  /\ \A i \in 1..Len(rows) :
       rows[i].name = members[i].name /\ rows[i].email = members[i].email

(* C2: a listParticipants from another connection during a replacement of *)
(* a non-empty set by a non-empty list returns the whole prior set or the  *)
(* whole new list.                                                         *)
C2_ConcurrentReaderSeesWholeSet ==
  [][(/\ txn.at = "deleted" /\ txn'.at = "deleted"
      /\ last'.op = "membersForSession" /\ last'.id = txn.id
      /\ txn.prior # <<>> /\ txn.members # <<>>)
     => \/ last'.ret = txn.prior
        \/ IsListOf(last'.ret, txn.members)]_vars

(* The rows of the token table for an identity, oldest first *)
SameIdentity(platform, userEmail) ==
  LET Keep(r) == r.platform = platform /\ r.user_email = userEmail
  IN SelectSeq(oauth_tokens, Keep)

(* C3: the token table holds at most one row per (platform, userEmail), *)
(* and getOAuthToken returns the values of the latest store for the pair. *)
C3_OneTokenPerIdentity ==
  /\ \A platform \in TokenPlatforms : \A email \in UserEmails :
       Len(SameIdentity(platform, email)) <= 1
  /\ (last.op = "getOAuthToken" /\ last.fault = "none"
        /\ SameIdentity(last.id, last.arg) # <<>>)
     => LET rows == SameIdentity(last.id, last.arg)
        IN last.ret = <<rows[Len(rows)]>>

(* The decoded value of a JSON text column, None where the column is NULL *)
Decoded(text) == IF text = None THEN None ELSE Some(JSONParse(text[1]).val)

CreatedThenFetched ==
  /\ last.op = "persistSession" /\ ~last.raised
  /\ last'.op = "fetchSession" /\ last'.id = last.id /\ last'.fault = "none"

(* C4 as stated: getSession right after a successful createSession returns *)
(* a session equal to the input on every field, summary and metadata       *)
(* decoded to the structured values given.                                 *)
C4_RoundTripEveryField ==
  [][CreatedThenFetched =>
       /\ ~last'.raised /\ Len(last'.ret) = 1
       /\ LET s == last.arg
              g == last'.ret[1]
          IN /\ g.row.id = s.id
             /\ g.row.platform = s.platform
             /\ g.row.meeting_link = s.meetingLink
             /\ g.row.title = s.title
             /\ g.row.status = s.status
             /\ g.row.oauth_token = s.oauth_token
             /\ g.metadata = s.meeting_metadata
             /\ g.summary = s.summary
             /\ g.row.started_at = s.started_at
             /\ g.row.completed_at = s.completed_at
             /\ g.row.transcript_path = s.transcript_path
             /\ g.row.recording_path = s.recording_path]_vars

(* C4, amended: getSession right after a successful createSession returns  *)
(* the input's id, platform, meeting link and status, its title and oauth   *)
(* token (null when omitted or empty) and its metadata decoded to the value *)
(* given; summary, startedAt, completedAt, transcriptPath and recordingPath *)
(* are null whatever the input carried, and createdAt is the store's clock. *)
C4_RoundTripInsertedColumns ==
  [][CreatedThenFetched =>
       /\ ~last'.raised /\ Len(last'.ret) = 1
       /\ LET s == last.arg
              g == last'.ret[1]
          IN /\ g.row.id = s.id
             /\ g.row.platform = s.platform
             /\ g.row.meeting_link = s.meetingLink
             /\ g.row.title = (IF s.title = "" THEN NULL ELSE s.title)
             /\ g.row.status = s.status
             /\ g.row.oauth_token = (IF s.oauth_token = "" THEN NULL ELSE s.oauth_token)
             /\ g.metadata = s.meeting_metadata
             /\ g.summary = None
             /\ g.row.started_at = NULL
             /\ g.row.completed_at = NULL
             /\ g.row.transcript_path = NULL
             /\ g.row.recording_path = NULL
             /\ InstantOf(g.row.created_at) = now]_vars

(* C4 witness: a session created with a title, a token and a metadata object is read back *)
C4_Witness ==
  /\ last.op = "fetchSession" /\ ~last.raised /\ Len(last.ret) = 1
  /\ last.ret[1].metadata = Some(Metadata1)
  /\ last.ret[1].row.title = "Standup"
  /\ last.ret[1].row.status = "recording"
  /\ last.ret[1].row.started_at = NULL

(* C5: createSession with a platform or a status outside the enumerations, *)
(* or with an id that already has a row, raises and leaves every table     *)
(* as it was.                                                              *)
C5_CreateRejectsAndKeepsStore ==
  [][(/\ last'.op = "persistSession"
      /\ \/ last'.arg.platform \notin Platforms
         \/ last'.arg.status \notin Statuses
         \/ last'.id \in DOMAIN meetings)
     => /\ last'.raised
        /\ meetings' = meetings
        /\ UNCHANGED otherTables]_vars

(* C5 witness: a create with an unknown platform has raised while the other session is stored *)
C5_Witness ==
  /\ last.op = "persistSession" /\ last.fault = "none" /\ last.raised
  /\ last.arg.platform = "invalid"
  /\ last.id \notin DOMAIN meetings
  /\ DOMAIN meetings # {}

(* C6: every stored session has a platform and a status of the enumerations *)
C6_StoredEnumerations ==
  \A id \in DOMAIN meetings :
    /\ meetings[id].platform \in Platforms
    /\ meetings[id].status \in Statuses

(* C6 witness: an update with an unknown status was tried on a stored session *)
C6_Witness ==
  /\ last.op = "updateSession" /\ last.fault = "none"
  /\ last.arg.status = "bogus"
  /\ last.id \in DOMAIN meetings

UpdatedExisting ==
  /\ last'.op = "updateSession"
  /\ last'.id \in DOMAIN meetings

(* C7 as stated: updateSession on an existing session stores the value the *)
(* partial gives for each of the six columns and null for each it omits.   *)
C7_UpdateStoresGivenOrNull ==
  [][(UpdatedExisting /\ last'.fault = "none") =>
       LET u == last'.arg
           new == meetings'[last'.id]
       IN /\ new.status = u.status
          /\ new.started_at = u.started_at
          /\ new.completed_at = u.completed_at
          /\ Decoded(new.summary_data) = u.summary
          /\ new.transcript_path = u.transcript_path
          /\ new.recording_path = u.recording_path]_vars

(* The value a column holds after an update that was given v *)
StoredFor(v) == IF v = "" THEN NULL ELSE v

(* C7, amended: with a status of the enumeration in the partial, the update *)
(* (unless the engine fails at it) stores that status and, for the other    *)
(* five columns, the value given, or null when it is omitted or empty;      *)
(* with the status omitted or unknown the call raises and the row keeps     *)
(* all its values.                                                          *)
C7_UpdateReplacesOrRaises ==
  [][UpdatedExisting =>
       LET u == last'.arg
           old == meetings[last'.id]
           new == meetings'[last'.id]
       IN IF u.status \in Statuses /\ last'.fault # "update"
          THEN /\ new.status = u.status
               /\ new.started_at = StoredFor(u.started_at)
               /\ new.completed_at = StoredFor(u.completed_at)
               /\ Decoded(new.summary_data) = u.summary
               /\ new.transcript_path = StoredFor(u.transcript_path)
               /\ new.recording_path = StoredFor(u.recording_path)
          ELSE /\ last'.raised
               /\ new = old]_vars

(* C7 witness: an update that gave only a status has cleared a stored summary's columns *)
C7_Witness ==
  /\ last.op = "updateSession" /\ ~last.raised
  /\ last.arg = BareUpdate("completed")
  /\ last.id \in DOMAIN meetings
  /\ meetings[last.id].summary_data = None
  /\ meetings[last.id].started_at = NULL

(* C8: cleanupOldData deletes the completed sessions created before the  *)
(* cutoff and no session created after it, deletes no session of another  *)
(* status, and returns the number of sessions it deleted.                 *)
C8_CleanupDeletesExactlyOldCompleted ==
  [][(last'.op = "cleanupOldData" /\ last'.fault = "none" /\ now' = now) =>
       LET cutoff == now - last'.arg.daysToKeep * TicksPerDay
           deleted == DOMAIN meetings \ DOMAIN meetings'
       IN /\ \A id \in DOMAIN meetings :
               (meetings[id].status = "completed"
                  /\ InstantOf(meetings[id].created_at) < cutoff) => id \in deleted
          /\ \A id \in deleted :
               /\ meetings[id].status = "completed"
               /\ InstantOf(meetings[id].created_at) <= cutoff
          /\ last'.ret = <<Cardinality(deleted)>>]_vars

(* C9: every participant row and every email-log row refers to a stored  *)
(* session, and an insert of either for an id with no session has raised. *)
C9_ChildrenHaveSession ==
  /\ \A i \in 1..Len(participants) : participants[i].meeting_id \in DOMAIN meetings
  /\ \A i \in 1..Len(email_logs) : email_logs[i].meeting_id \in DOMAIN meetings
  /\ (/\ last.op \in {"addParticipant", "logEmailSend", "setSessionMembers"}
      /\ last.op = "setSessionMembers" => last.arg # <<>>
      /\ last.id \notin DOMAIN meetings)
     => last.raised

(* C9 witness: cleanup has deleted session s1 and with it the participant *)
(* and the email log it owned, leaving the participant of s2.             *)
C9_Witness ==
  /\ last.op = "cleanupOldData" /\ last.arg.deleted = {"s1"}
  /\ Len(participants) = 1
  /\ participants[1].id = 2 /\ participants[1].meeting_id = "s2"
  /\ email_logs = <<>>

(* The read and listing operations *)
ReadOps ==
  {"fetchSession", "recentSessions", "pendingSessionsCount", "membersForSession",
   "getEmailLogsForMeeting", "getChatHistory", "getOAuthToken", "getSetting",
   "getMeetingStats"}

(* C10: no read or listing operation raises to its caller *)
C10_ReadsNeverRaise == last.op \in ReadOps => ~last.raised

(* C11: when the storage engine fails during cleanupOldData the call raises *)
(* to its caller; it does not return a count as a run that deleted nothing  *)
(* does.                                                                    *)
C11_CleanupFailureRaises ==
  (last.op = "cleanupOldData" /\ last.fault # "none") => (last.raised /\ last.ret = <<>>)

(* C12: every email-log row has a sent_at if and only if its status is *)
(* sent, after any sequence of logEmailSend and updateEmailStatus calls *)
(* (a row that leaves sent loses its sent_at)                           *)
C12_SentAtIffSent ==
  \A i \in 1..Len(email_logs) :
    (email_logs[i].sent_at # None) <=> (email_logs[i].status = "sent")

(* C12 witness: updateEmailStatus has moved a row from sent, with its sent_at, *)
(* to failed, and the row has no sent_at now                                   *)
C12_Witness ==
  /\ last.op = "updateEmailStatus" /\ ~last.raised
  /\ last.arg.prior # None
  /\ last.arg.prior[1].status = "sent" /\ last.arg.prior[1].sent_at # None
  /\ \E i \in 1..Len(email_logs) :
       /\ email_logs[i].id = last.id
       /\ email_logs[i].status = "failed" /\ email_logs[i].sent_at = None

(* The distance of two naturals *)
Distance(a, b) == IF a < b THEN b - a ELSE a - b

(* C13: the completionRate getMeetingStats returns is an integer between 0  *)
(* and 100; computed from the store it is 0 when there are no sessions and  *)
(* otherwise the integer nearest to completed * 100 / total, and with no    *)
(* sessions the per-platform and recent-activity breakdowns are empty.      *)
C13_CompletionRate ==
  last.op = "getMeetingStats" =>
    LET stats == last.ret[1]
        total == Cardinality(DOMAIN meetings)
        completed == CountByStatus({"completed"})
    IN /\ stats.completionRate \in 0..100
       /\ last.fault = "none" =>
            /\ total = 0 => /\ stats.completionRate = 0
                            /\ stats.platformStats = {}
                            /\ stats.recentActivity = {}
            /\ total > 0 =>
                 2 * Distance(stats.completionRate * total, completed * 100) <= total

(* C13 witness: two of three sessions are completed and the rate returned is 67 *)
C13_Witness ==
  /\ last.op = "getMeetingStats" /\ last.fault = "none"
  /\ Cardinality(DOMAIN meetings) = 3
  /\ CountByStatus({"completed"}) = 2
  /\ last.ret[1].completionRate = 67

(* C14: after any sequence of setSetting calls the table holds at most one *)
(* row per key; getSetting(key, default) gives the default for a key never *)
(* set and, after a successful setSetting(key, value), that value; no      *)
(* other call changes the key's row, so the value stays until the next     *)
(* successful setSetting of the key.                                       *)
C14_LastWriteWins ==
  [][\A k \in StoredKeys :
       /\ last = NoCall => \A d \in SettingDefaults : GetSettingResult(k, d, "none") = d
       /\ Len(SettingRows(k)') <= 1
       /\ IF last'.op = "setSetting" /\ ~last'.raised /\ last'.id = k
          THEN \A d \in SettingDefaults :
                 GetSettingResult(k, d, "none")' = last'.arg.value[1]
          ELSE SettingRows(k)' = SettingRows(k)]_vars

(* C14 witness: a setting that had a value has been set to false, and *)
(* getSetting gives false, not the default                            *)
C14_Witness ==
  /\ last.op = "setSetting" /\ ~last.raised
  /\ last.arg.prior # <<>>
  /\ last.arg.prior[1].value = StringifyValue(Object(Metadata1))
  /\ last.arg.value = Some(Literal("false"))
  /\ Len(system_settings) = 2
  /\ GetSettingResult(last.id, Object(EmptyObject), "none") = Literal("false")

(* A step of setSessionMembers: its DELETE, or its insert transaction and return *)
ReplaceDeletes == txn.at = "idle" /\ txn'.at = "deleted"
ReplaceReturns == txn.at = "deleted" /\ txn'.at = "idle" /\ ~last'.raised

(* C15: after a successful setSessionMembers(sessionId, list),            *)
(* membersForSession(sessionId) returns one row per element of the list, *)
(* in its order, and no row of the previous set; a row whose element     *)
(* gave no role has role participant; and the participants of every      *)
(* other session are as they were before the call.                       *)
C15_ReplaceStoresExactlyTheList ==
  [][/\ ReplaceDeletes =>
          \A s \in SessionIds \ {txn'.id} :
            RowsOfMeeting(participants', s) = RowsOfMeeting(participants, s)
     /\ ReplaceReturns =>
          LET rows == RowsOfMeeting(participants', txn.id)
          IN /\ last'.ret = txn.members
             /\ IsListOf(rows, txn.members)
             /\ \A i \in 1..Len(rows) :
                  /\ ~Truthy(txn.members[i].role) => rows[i].role = "participant"
                  /\ Truthy(txn.members[i].role) => rows[i].role = txn.members[i].role
                  /\ \A j \in 1..Len(txn.prior) : rows[i].id # txn.prior[j].id
             /\ \A s \in SessionIds \ {txn.id} :
                  RowsOfMeeting(participants', s) = RowsOfMeeting(participants, s)]_vars

(* C15 witness: a replacement by <<Jane>> of a session that had a row has *)
(* returned; the session has the one row of Jane, with role participant,  *)
(* under an id no earlier row held, and the other session still has its   *)
(* row.                                                                   *)
C15_Witness ==
  /\ last.op = "setSessionMembers" /\ ~last.raised /\ last.arg = <<Jane>>
  /\ LET rows == RowsOfMeeting(participants, last.id)
     IN /\ Len(rows) = 1
        /\ rows[1].name = "Jane" /\ rows[1].role = "participant"
        /\ rows[1].id = 3
  /\ \E s \in SessionIds \ {last.id} : Len(RowsOfMeeting(participants, s)) = 1

(* C16: no operation removes or rewrites a chat-log row: every row stays, *)
(* in its place, with its id, prompt, response, platform and created_at;  *)
(* its meeting_id stays too unless the step deletes that session, and     *)
(* then the row is kept with meeting_id NULL.                             *)
C16_ChatLogsOutliveSession ==
  [][/\ Len(chat_logs') >= Len(chat_logs)
     /\ \A i \in 1..Len(chat_logs) :
          chat_logs'[i] =
            IF chat_logs[i].meeting_id \in DOMAIN meetings \ DOMAIN meetings'
            THEN [chat_logs[i] EXCEPT !.meeting_id = NULL]
            ELSE chat_logs[i]]_vars

(* C16 witness: cleanupOldData has deleted session s1, and the chat log *)
(* that was logged for s1 is still there, with no session               *)
C16_Witness ==
  /\ last.op = "cleanupOldData" /\ "s1" \in last.arg.deleted
  /\ "s1" \notin DOMAIN meetings
  /\ \E i \in 1..Len(chat_logs) :
       chat_logs[i].id = GivenChatId /\ chat_logs[i].meeting_id = NULL

(* C17: the pending-or-failed listing returns exactly the email-log rows,  *)
(* of all sessions, whose status is pending or failed; and a row leaves    *)
(* the result only when updateEmailStatus sets it to sent or bounced, or   *)
(* when cleanupOldData deletes its session.                                *)
C17_PendingListing ==
  [][/\ last'.op = "getPendingEmails" =>
          /\ \A j \in 1..Len(last'.ret) :
               \E i \in 1..Len(email_logs') : email_logs'[i] = last'.ret[j]
          /\ \A i \in 1..Len(email_logs') :
               (\E j \in 1..Len(last'.ret) : last'.ret[j] = email_logs'[i])
                 <=> email_logs'[i].status \in {"pending", "failed"}
     /\ \A i \in 1..Len(email_logs) :
          LET r == email_logs[i]
          IN (/\ r.status \in {"pending", "failed"}
              /\ \A j \in 1..Len(PendingEmails') : PendingEmails'[j].id # r.id)
             => \/ /\ last'.op = "updateEmailStatus" /\ ~last'.raised
                   /\ last'.id = r.id /\ last'.arg.status \in {"sent", "bounced"}
                \/ /\ last'.op = "cleanupOldData"
                   /\ r.meeting_id \in last'.arg.deleted]_vars

(* C17 witness: of two email logs of two sessions, one failed and one *)
(* bounced, the listing has returned the failed one alone             *)
C17_Witness ==
  /\ last.op = "getPendingEmails"
  /\ Len(email_logs) = 2 /\ email_logs[1].meeting_id # email_logs[2].meeting_id
  /\ {email_logs[1].status, email_logs[2].status} = {"failed", "bounced"}
  /\ Len(last.ret) = 1 /\ last.ret[1].status = "failed"

(* A step in which addParticipant returns *)
AddReturns == last' # last /\ last'.op = "addParticipant" /\ ~last'.raised

(* C18: a successful addParticipant(sessionId, participant) adds one row, *)
(* of that session and that participant, and leaves every row that was   *)
(* there as it was; a role left out is stored as participant.            *)
C18_AddKeepsExisting ==
  [][AddReturns =>
       /\ Len(participants') = Len(participants) + 1
       /\ SubSeq(participants', 1, Len(participants)) = participants
       /\ LET row == participants'[Len(participants')]
              given == last'.arg
          IN /\ row.meeting_id = last'.id
             /\ row.id = last'.ret[1]
             /\ \A i \in 1..Len(participants) : participants[i].id # row.id
             /\ row.name = given.name /\ row.email = given.email
             /\ row.role = IF Truthy(given.role) THEN given.role ELSE "participant"]_vars

(* C18 witness: Jane, who gave no role, has been added to a session that *)
(* had Bob; both rows are there and Jane's role is participant           *)
C18_Witness ==
  /\ last.op = "addParticipant" /\ ~last.raised /\ last.arg = Jane
  /\ Len(participants) = 2
  /\ participants[1].name = "Bob" /\ participants[1].meeting_id = last.id
  /\ participants[2].name = "Jane" /\ participants[2].meeting_id = last.id
  /\ participants[2].role = "participant"

(* An updateSession call on an id that has no row ends in this step *)
UpdatedMissing ==
  /\ last'.op = "updateSession"
  /\ last'.id \notin DOMAIN meetings

(* C19: updateSession on an id that has no session row changes nothing in *)
(* the store: it creates no session and changes no other one; and,        *)
(* whatever the partial, it does not raise and returns the not-found      *)
(* indicator (null), the engine not failing.                              *)
C19_UpdateOfMissingIsNoOp ==
  [][UpdatedMissing =>
       /\ meetings' = meetings
       /\ otherTables' = otherTables
       /\ last'.fault = "none" => (~last'.raised /\ last'.ret = <<>>)]_vars

(* C19 witness: with session s1 stored and s2 not, an update of s2 whose *)
(* partial has no status has returned null                              *)
C19_Witness ==
  /\ last.op = "updateSession" /\ last.id = "s2" /\ last.fault = "none"
  /\ last.arg.status = NULL
  /\ DOMAIN meetings = {"s1"}
  /\ ~last.raised /\ last.ret = <<>>

(* The columns of a session that updateSession does not write *)
KeptColumns(row) ==
  <<row.id, row.platform, row.meeting_link, row.title, row.created_at,
    row.oauth_token, row.meeting_metadata>>

(* C20: updateSession(id, partial) changes nothing but the columns status, *)
(* started_at, completed_at, summary_data, transcript_path and             *)
(* recording_path of the session of that id: the session's other columns,  *)
(* every other session, and every participant, email log, chat log, token  *)
(* and setting are as they were.                                           *)
C20_UpdateFrame ==
  [][last'.op = "updateSession" =>
       /\ DOMAIN meetings' = DOMAIN meetings
       /\ \A id \in DOMAIN meetings :
            IF id = last'.id
            THEN KeptColumns(meetings'[id]) = KeptColumns(meetings[id])
            ELSE meetings'[id] = meetings[id]
       /\ otherTables' = otherTables]_vars

(* C20 witness: an update has completed session s1, which still has its  *)
(* title, token and metadata, in a store with another session and a row  *)
(* in every other table                                                  *)
C20_Witness ==
  /\ last.op = "updateSession" /\ ~last.raised /\ last.id = "s1"
  /\ DOMAIN meetings = {"s1", "s2"}
  /\ meetings["s1"].status = "completed" /\ meetings["s1"].summary_data # None
  /\ meetings["s1"].title = "Standup" /\ meetings["s1"].oauth_token = "tok"
  /\ meetings["s1"].meeting_metadata # None
  /\ meetings["s2"].status = "recording"
  /\ Len(participants) = 1 /\ Len(email_logs) = 1 /\ Len(chat_logs) = 1
  /\ Len(oauth_tokens) = 1 /\ Len(system_settings) = 1

(* C21: updateSession on an existing session with a partial whose status *)
(* is omitted, or not of the enumeration, raises and leaves the row as   *)
(* it was, the values the partial gave for the other columns not stored; *)
(* no update leaves a session with a NULL status.                        *)
C21_UpdateWithoutStatusRaises ==
  [][UpdatedExisting =>
       /\ last'.arg.status \notin Statuses =>
            /\ last'.raised /\ last'.ret = <<>>
            /\ meetings' = meetings
       /\ \A id \in DOMAIN meetings' : meetings'[id].status # NULL]_vars

(* C21 witness: a partial with a summary and a transcript path but no   *)
(* status has been refused, the engine not failing; the session has its *)
(* status and neither the summary nor the path                          *)
C21_Witness ==
  /\ last.op = "updateSession" /\ last.fault = "none" /\ last.raised
  /\ last.arg.status = NULL
  /\ last.arg.summary = Some(Summary1) /\ last.arg.transcript_path = "/t.txt"
  /\ last.id \in DOMAIN meetings
  /\ meetings[last.id].status = "recording"
  /\ meetings[last.id].summary_data = None
  /\ meetings[last.id].transcript_path = NULL

====
